---- MODULE Spec2Model ----
(***************************************************************************)
(* Model of coinbase_csv.py: fetch_and_store_candles and its entry point.  *)
(*                                                                         *)
(* The program is one sequential thread.  pc is its position:              *)
(*   "call"      line 19      granularity validation                       *)
(*   "setup"     lines 24-31  candle_data, end_time                        *)
(*   "window"    lines 35-57  start_time, request parameters               *)
(*   "send"      lines 59-66  conn.request / conn.getresponse              *)
(*   "process"   lines 69-84  body, status, json.loads, emptiness          *)
(*   "append"    lines 87-99  the for loop over the candles                *)
(*               lines 100-109 are taken when the for loop is exhausted    *)
(*   "except"    lines 111-112, "interrupt" lines 114-115                  *)
(*   "finally"   lines 117-128                                             *)
(*   "main_except" lines 135-136, "exit" the process has ended             *)
(*                                                                         *)
(* Times are epoch seconds (UTC).  The upstream answers are inputs: each   *)
(* request receives any response of Responses(start_time).  The wall clock *)
(* of a run is at or after the floor date 2015-07-20.  A KeyboardInterrupt *)
(* may be delivered at any position inside the try block (lines 33-109).   *)
(* The file write of lines 121-125 is taken to succeed.                    *)
(***************************************************************************)
EXTENDS Integers, Sequences, FiniteSets, TLC

VARIABLES
    pc,           \* position of the thread of control
    granularity,  \* argument of fetch_and_store_candles
    product_id,   \* argument of fetch_and_store_candles
    candle_data,  \* the accumulation list (line 25)
    end_time,     \* the moving cursor (lines 30, 103), epoch seconds
    start_time,   \* line 35
    data,         \* the parsed body (line 76)
    idx,          \* position of the for loop of line 87 in data
    log,          \* the set of messages logged so far
    file,         \* the CSV file: NoFile, or its header and rows
    writes,       \* history: how many times the file was opened for writing
    finalized,    \* history: how many times the finally block ran
    requests,     \* history: the request parameters, in the order issued
    received,     \* history: the responses, in the order received
    windows_done, \* history: how many windows had all their candles appended
    int_at        \* history: NoInt, or what had happened when the interrupt came

vars == <<pc, granularity, product_id, candle_data, end_time, start_time, data,
          idx, log, file, writes, finalized, requests, received, windows_done,
          int_at>>

----------------------------------------------------------------------------
(* Bounds of the model *)

\* the run starts at most this many days after the floor date
MaxStartDay == 2

\* the upstream returns at most this many elements in one body
MaxCandles == 2

----------------------------------------------------------------------------
(* Program constants *)

\* datetime(2015, 7, 20, tzinfo=UTC) as epoch seconds (line 107)
Floor == 1437350400

\* timedelta(days=1) in seconds (line 35)
OneDay == 86400

\* the status the code accepts (line 72)
StatusOK == 200

AllowedGranularities == {60, 300, 900, 3600, 21600, 86400}

FieldNames ==
    <<"Exchange", "Pair", "Close Timestamp", "Low", "High", "Open", "Close",
      "Volume">>

----------------------------------------------------------------------------
(* Inputs *)

Granularities == AllowedGranularities \cup {-60, 0, 61, 3601}

ProductIds == {"BTC-USD"}

\* seconds into the day at which the run may start
DaySeconds == {0, 1, 43200, 86399}

Clock == {Floor + d * OneDay + s : d \in 0..MaxStartDay, s \in DaySeconds}

NoFile == [header |-> <<>>, rows |-> <<>>, exists |-> FALSE]
NoInt == [happened |-> FALSE, windows |-> 0, requests |-> 0, records |-> 0]
NoData == [type |-> "none", n |-> 0, items |-> <<>>]

----------------------------------------------------------------------------
(* JSON values as json.loads returns them.  A value is a record            *)
(* [type, n, items]: n is the value of a number, items are the elements of *)
(* an array, the characters of a string or the keys of an object.          *)

JNull == [type |-> "null", n |-> 0, items |-> <<>>]
JNum(k) == [type |-> "number", n |-> k, items |-> <<>>]
JArr(s) == [type |-> "array", n |-> 0, items |-> s]
JStr(s) == [type |-> "string", n |-> 0, items |-> s]
JObj(s) == [type |-> "object", n |-> 0, items |-> s]

\* a one-character string, as iterating a string or the keys of an object
\* with one-letter keys yields
Char == JStr(<<>>)

\* the candle the upstream returns at position i of the window starting at t
GoodCandle(t, i) == JArr(<<t + i * 60, 1, 4, 2, 3, 5>>)

\* a candle cut short, and an element that is no array
ShortCandle(t) == JArr(<<t, 1, 4>>)
ScalarElement == JNum(7)

Elements(t, i) == {GoodCandle(t, i), ShortCandle(t), ScalarElement}

ArrayBodies(t) ==
    UNION {{JArr(s) : s \in {f \in [1..n -> UNION {Elements(t, i) : i \in 1..n}] :
                                \A i \in 1..n : f[i] \in Elements(t, i)}}
           : n \in 0..MaxCandles}

OtherBodies ==
    {JNull, JNum(0), JNum(7), JStr(<<>>), JStr(<<Char>>), JObj(<<>>),
     JObj(<<Char>>)}

\* a response: sent is FALSE when conn.request or conn.getresponse raised;
\* json is FALSE when the body is no JSON text
Response(sent, status, json, body) ==
    [sent |-> sent, status |-> status, json |-> json, body |-> body]

SendFailure == Response(FALSE, 0, FALSE, NoData)
NotFound == Response(TRUE, 404, TRUE, JObj(<<Char>>))
InvalidJson == Response(TRUE, StatusOK, FALSE, NoData)

Responses(t) ==
    {SendFailure, NotFound, InvalidJson}
        \cup {Response(TRUE, StatusOK, TRUE, b) : b \in ArrayBodies(t) \cup OtherBodies}

----------------------------------------------------------------------------
(* Pure functions *)

\* datetime.now(UTC).replace(hour=0, minute=0, second=0, microsecond=0)
Midnight(now) == now - (now % OneDay)

\* variant: the window shortened to one hour
PreviousDay_Hour(t) == t - 3600

\* end_time - timedelta(days=1)
PreviousDay(t) == t - OneDay

\* variants: the floor date itself excluded; the floor one day too early
BeforeFloor_Inclusive(t) == t <= Floor

BeforeFloor_DayLate(t) == t < Floor - OneDay

\* end_time < datetime(2015, 7, 20, tzinfo=UTC)
BeforeFloor(t) == t < Floor

\* variant: any positive granularity accepted
ValidGranularity_Positive(g) == g > 0

\* granularity not in [60, 300, 900, 3600, 21600, 86400]
ValidGranularity(g) == g \in AllowedGranularities

\* Python truth value of a parsed body (`if not data`)
Truthy(v) ==
    CASE v.type = "null" -> FALSE
      [] v.type = "number" -> v.n # 0
      [] OTHER -> v.items # <<>>

\* whether `for candle in data` can iterate the value
Iterable(v) == v.type \in {"array", "string", "object"}

\* candle[i] with Python's 0-based i: defined for an array long enough
HasIndex(c, i) == c.type = "array" /\ i < Len(c.items)

\* datetime.fromtimestamp(ts, UTC).isoformat() as <<year, month, day, hour,
\* minute, second>>, for a whole number of seconds
IsoFormat(ts) ==
    LET days == ts \div 86400
        secs == ts % 86400
        z    == days + 719468
        era  == z \div 146097
        doe  == z - era * 146097
        yoe  == (doe - doe \div 1460 + doe \div 36524 - doe \div 146096) \div 365
        doy  == doe - (365 * yoe + yoe \div 4 - yoe \div 100)
        mp   == (5 * doy + 2) \div 153
        d    == doy - (153 * mp + 2) \div 5 + 1
        m    == IF mp < 10 THEN mp + 3 ELSE mp - 9
        y    == yoe + era * 400 + (IF m <= 2 THEN 1 ELSE 0)
    IN  <<y, m, d, secs \div 3600, (secs % 3600) \div 60, secs % 60>>

\* whether lines 88-98 build a record from the element without raising
BuildsRecord(c) == HasIndex(c, 5)

\* the candle_record of lines 89-98
CandleRecord(pair, c) ==
    [Exchange |-> "Coinbase",
     Pair |-> pair,
     CloseTimestamp |-> IsoFormat(c.items[1]),
     Low |-> c.items[2],
     High |-> c.items[3],
     Open |-> c.items[4],
     Close |-> c.items[5],
     Volume |-> c.items[6]]

\* variant: candle_data.insert(0, candle_record)
AppendRecord_Front(list, rec) == <<rec>> \o list

\* candle_data.append(candle_record)
AppendRecord(list, rec) == Append(list, rec)

\* the row csv.DictWriter writes for a record, in the order of fieldnames
Row(r) ==
    <<r.Exchange, r.Pair, r.CloseTimestamp, r.Low, r.High, r.Open, r.Close,
      r.Volume>>

Rows(list) == [i \in 1..Len(list) |-> Row(list[i])]

\* variant: the file written whatever the list holds
ShouldWrite_Always(list) == TRUE

\* `if candle_data:` of line 119
ShouldWrite(list) == list # <<>>

\* variant: `continue` in place of `break`
AfterSendFailure_Continue == "window"

\* where `break` after a failed send leads (line 66): out of the loop
AfterSendFailure == "finally"

\* variant: the interrupt swallowed and the loop resumed
AfterKeyboardInterrupt_Resume == "window"

\* where control goes once the KeyboardInterrupt handler has logged (line 115)
AfterKeyboardInterrupt == "finally"

\* variant: the write placed where the handler skips it
AfterException_Return == "exit"

\* where control goes once the Exception handler has logged (line 112):
\* into the finally block
AfterException == "finally"

\* the positions inside the try block of lines 33-109
InTry == {"window", "send", "process", "append"}

----------------------------------------------------------------------------
Init ==
    /\ pc = "call"
    /\ granularity \in Granularities
    /\ product_id \in ProductIds
    /\ candle_data = <<>>
    /\ end_time = 0
    /\ start_time = 0
    /\ data = NoData
    /\ idx = 0
    /\ log = {}
    /\ file = NoFile
    /\ writes = 0
    /\ finalized = 0
    /\ requests = <<>>
    /\ received = <<>>
    /\ windows_done = 0
    /\ int_at = NoInt

\* lines 19-22
ValidateGranularity ==
    /\ pc = "call"
    /\ IF ValidGranularity(granularity)
         THEN /\ pc' = "setup"
              /\ log' = log
         ELSE /\ pc' = "main_except"
              /\ log' = log \cup {"Invalid granularity"}
    /\ UNCHANGED <<granularity, product_id, candle_data, end_time, start_time,
                   data, idx, file, writes, finalized, requests, received,
                   windows_done, int_at>>

\* lines 24-31
Setup ==
    /\ pc = "setup"
    /\ \E now \in Clock : end_time' = Midnight(now)
    /\ candle_data' = <<>>
    /\ log' = log \cup {"CSV file will be saved as", "Starting data fetch"}
    /\ pc' = "window"
    /\ UNCHANGED <<granularity, product_id, start_time, data, idx, file, writes,
                   finalized, requests, received, windows_done, int_at>>

\* lines 35-57
BeginWindow ==
    /\ pc = "window"
    /\ start_time' = PreviousDay(end_time)
    /\ pc' = "send"
    /\ UNCHANGED <<granularity, product_id, candle_data, end_time, data, idx,
                   log, file, writes, finalized, requests, received,
                   windows_done, int_at>>

\* lines 59-66
SendRequest ==
    /\ pc = "send"
    /\ requests' = Append(requests, [start |-> start_time, end |-> end_time,
                                      granularity |-> granularity,
                                      product |-> product_id])
    /\ \E r \in Responses(start_time) :
         /\ received' = Append(received, r)
         /\ IF r.sent
              THEN /\ pc' = "process"
                   /\ log' = log \cup {"Received response"}
              ELSE /\ pc' = AfterSendFailure
                   /\ log' = log \cup {"Failed to send request"}
    /\ UNCHANGED <<granularity, product_id, candle_data, end_time, start_time,
                   data, idx, file, writes, finalized, windows_done, int_at>>

\* lines 69-84
ProcessResponse ==
    /\ pc = "process"
    /\ LET r == received[Len(received)] IN
         IF r.status # StatusOK
           THEN /\ pc' = "except"
                /\ UNCHANGED <<data, idx, log>>
           ELSE IF ~r.json
             THEN /\ pc' = "finally"
                  /\ log' = log \cup {"Error decoding JSON response"}
                  /\ UNCHANGED <<data, idx>>
             ELSE /\ data' = r.body
                  /\ IF ~Truthy(r.body)
                       THEN /\ pc' = "finally"
                            /\ log' = log \cup {"No data available"}
                            /\ idx' = idx
                       ELSE /\ pc' = "append"
                            /\ idx' = 1
                            /\ log' = log
    /\ UNCHANGED <<granularity, product_id, candle_data, end_time, start_time,
                   file, writes, finalized, requests, received, windows_done,
                   int_at>>

\* lines 87-99: one iteration of the for loop, or the error that ends it
AppendCandle ==
    /\ pc = "append"
    /\ \/ /\ ~Iterable(data)
          /\ pc' = "except"
          /\ UNCHANGED <<candle_data, idx>>
       \/ /\ Iterable(data)
          /\ idx <= Len(data.items)
          /\ IF BuildsRecord(data.items[idx])
               THEN /\ candle_data' =
                         AppendRecord(candle_data,
                                      CandleRecord(product_id, data.items[idx]))
                    /\ idx' = idx + 1
                    /\ pc' = pc
               ELSE /\ pc' = "except"
                    /\ UNCHANGED <<candle_data, idx>>
    /\ UNCHANGED <<granularity, product_id, end_time, start_time, data, log,
                   file, writes, finalized, requests, received, windows_done,
                   int_at>>

\* lines 100-109, when the for loop is exhausted
AdvanceWindow ==
    /\ pc = "append"
    /\ Iterable(data)
    /\ idx > Len(data.items)
    /\ end_time' = start_time
    /\ windows_done' = windows_done + 1
    /\ IF BeforeFloor(start_time)
         THEN /\ pc' = "finally"
              /\ log' = log \cup {"Fetched candles", "Reached the stopping date"}
         ELSE /\ pc' = "window"
              /\ log' = log \cup {"Fetched candles"}
    /\ UNCHANGED <<granularity, product_id, candle_data, start_time, data, idx,
                   file, writes, finalized, requests, received, int_at>>

\* a KeyboardInterrupt is delivered inside the try block
Interrupt ==
    /\ pc \in InTry
    /\ pc' = "interrupt"
    /\ int_at' = [happened |-> TRUE, windows |-> windows_done,
                  requests |-> Len(requests), records |-> Len(candle_data)]
    /\ UNCHANGED <<granularity, product_id, candle_data, end_time, start_time,
                   data, idx, log, file, writes, finalized, requests, received,
                   windows_done>>

\* lines 111-112
ExceptException ==
    /\ pc = "except"
    /\ log' = log \cup {"Error fetching data"}
    /\ pc' = AfterException
    /\ UNCHANGED <<granularity, product_id, candle_data, end_time, start_time,
                   data, idx, file, writes, finalized, requests, received,
                   windows_done, int_at>>

\* lines 114-115
ExceptKeyboardInterrupt ==
    /\ pc = "interrupt"
    /\ log' = log \cup {"Keyboard interrupt detected"}
    /\ pc' = AfterKeyboardInterrupt
    /\ UNCHANGED <<granularity, product_id, candle_data, end_time, start_time,
                   data, idx, file, writes, finalized, requests, received,
                   windows_done, int_at>>

\* lines 117-128
Finalize ==
    /\ pc = "finally"
    /\ finalized' = finalized + 1
    /\ IF ShouldWrite(candle_data)
         THEN /\ file' = [header |-> FieldNames, rows |-> Rows(candle_data),
                          exists |-> TRUE]
              /\ writes' = writes + 1
              /\ log' = log \cup {"Writing candle records", "Successfully wrote"}
         ELSE /\ log' = log \cup {"No data to write."}
              /\ UNCHANGED <<file, writes>>
    /\ pc' = "exit"
    /\ UNCHANGED <<granularity, product_id, candle_data, end_time, start_time,
                   data, idx, requests, received, windows_done, int_at>>

\* lines 135-136
MainExcept ==
    /\ pc = "main_except"
    /\ log' = log \cup {"Unexpected error"}
    /\ pc' = "exit"
    /\ UNCHANGED <<granularity, product_id, candle_data, end_time, start_time,
                   data, idx, file, writes, finalized, requests, received,
                   windows_done, int_at>>

Next ==
    \/ ValidateGranularity
    \/ Setup
    \/ BeginWindow
    \/ SendRequest
    \/ ProcessResponse
    \/ AppendCandle
    \/ AdvanceWindow
    \/ Interrupt
    \/ ExceptException
    \/ ExceptKeyboardInterrupt
    \/ Finalize
    \/ MainExcept

Spec == Init /\ [][Next]_vars

\* the sequential program always takes its next step
FairSpec == Spec /\ WF_vars(Next)

----------------------------------------------------------------------------
(* Properties *)

\* the records lines 87-99 build from a body all of whose elements build one
RecordsOf(r) ==
    [i \in 1..Len(r.body.items) |-> CandleRecord(product_id, r.body.items[i])]

\* the records of the first k responses, in the order received
RECURSIVE RecordsUpTo(_)
RecordsUpTo(k) ==
    IF k = 0 THEN <<>> ELSE RecordsUpTo(k - 1) \o RecordsOf(received[k])

IsPrefix(s, t) == Len(s) <= Len(t) /\ \A i \in 1..Len(s) : s[i] = t[i]

WrittenFile(list) == [header |-> FieldNames, rows |-> Rows(list), exists |-> TRUE]

\* a status-200 response carrying an array of candles that all build records
WellFormed(r) ==
    /\ r.sent /\ r.status = 200 /\ r.json
    /\ r.body.type = "array"
    /\ \A i \in 1..Len(r.body.items) :
         r.body.items[i].type = "array" /\ Len(r.body.items[i].items) = 6

\* a send failure, a non-200 status or a body that is no JSON text
Failed(r) == ~r.sent \/ r.status # 200 \/ ~r.json

\* C1: once a run that passed validation has ended, the finally block has run
\* exactly once, and either the file was written once with every accumulated
\* record, or the list is empty, no file exists and "No data to write." was
\* logged; the file is never written twice.
C1_FinalizedOnce ==
    /\ finalized <= 1
    /\ writes <= 1
    /\ (pc = "exit" /\ granularity \in {60, 300, 900, 3600, 21600, 86400}) =>
         /\ finalized = 1
         /\ IF candle_data # <<>>
              THEN /\ writes = 1
                   /\ file = WrittenFile(candle_data)
                   /\ "No data to write." \notin log
              ELSE /\ writes = 0
                   /\ file = NoFile
                   /\ "No data to write." \in log

C1_Witness ==
    /\ pc = "exit"
    /\ "Error fetching data" \in log
    /\ Len(received) = 2
    /\ received[2].status = 404
    /\ file.exists

\* C2: a granularity of {60, 300, 900, 3600, 21600, 86400} passes validation
\* and the try block is entered; any other granularity is rejected with the
\* invalid-granularity error before any request, with no record, no
\* finalization and no file.
C2_Validation ==
    IF granularity \in {60, 300, 900, 3600, 21600, 86400}
      THEN /\ "Invalid granularity" \notin log
           /\ pc # "main_except"
           /\ pc = "exit" => finalized = 1
      ELSE /\ pc \in {"call", "main_except", "exit"}
           /\ pc # "call" => "Invalid granularity" \in log
           /\ requests = <<>>
           /\ received = <<>>
           /\ candle_data = <<>>
           /\ finalized = 0
           /\ file = NoFile

C2_Witness ==
    /\ pc = "exit"
    /\ granularity = 3601
    /\ "Unexpected error" \in log

C4_Concatenation ==
    (/\ pc \in {"finally", "exit"}
     /\ ~int_at.happened
     /\ received # <<>>
     /\ \A i \in 1..Len(received) : WellFormed(received[i])
     /\ received[Len(received)].body.items = <<>>)
        => candle_data = RecordsUpTo(Len(received))

C4_Witness ==
    /\ pc = "exit"
    /\ ~int_at.happened
    /\ Len(received) = 3
    /\ \A i \in 1..3 : WellFormed(received[i])
    /\ Len(received[1].body.items) = 2
    /\ Len(received[2].body.items) = 1
    /\ received[3].body.items = <<>>
    /\ Len(candle_data) = 3

\* C5: an interruption that arrives in the loop after k >= 1 windows were
\* fully processed is caught, no request is issued after it, and the file
\* is written with the records of those k windows first, in order.
C5_InterruptKeepsWindows ==
    (int_at.happened /\ int_at.windows >= 1) =>
        /\ Len(requests) = int_at.requests
        /\ pc = "exit" =>
             /\ "Keyboard interrupt detected" \in log
             /\ "Unexpected error" \notin log
             /\ writes = 1
             /\ file.exists
             /\ file.header = FieldNames
             /\ IsPrefix(Rows(RecordsUpTo(int_at.windows)), file.rows)
             /\ Len(file.rows) = int_at.records

C5_Witness ==
    /\ pc = "exit"
    /\ int_at.happened
    /\ int_at.windows = 2
    /\ Len(file.rows) = 3

\* C6: when the first request ends in a send failure, a non-200 status, a
\* body that is no JSON or an empty candle list, the list is empty at the
\* end, no file exists and "No data to write." was logged.
C6_NothingToWrite ==
    (/\ pc = "exit"
     /\ received # <<>>
     /\ \/ Failed(received[1])
        \/ received[1].body = JArr(<<>>))
        => /\ candle_data = <<>>
           /\ file = NoFile
           /\ writes = 0
           /\ "No data to write." \in log

C6_Witness ==
    /\ pc = "exit"
    /\ Len(received) = 1
    /\ received[1].status = 404

\* C7: no window is requested twice, no request follows a failed one, and
\* after a failed request the file holds exactly the records of the windows
\* before it.
C7_NoRetry ==
    /\ \A i, j \in 1..Len(requests) : i < j => requests[i] # requests[j]
    /\ \A i \in 1..Len(received) : Failed(received[i]) => i = Len(received)
    /\ Len(requests) = Len(received)
    /\ (pc = "exit" /\ received # <<>> /\ Failed(received[Len(received)])) =>
         LET kept == RecordsUpTo(Len(received) - 1) IN
           /\ candle_data = kept
           /\ file = IF kept = <<>> THEN NoFile ELSE WrittenFile(kept)

C7_Witness ==
    /\ pc = "exit"
    /\ Len(received) = 3
    /\ received[3] = InvalidJson
    /\ Len(file.rows) = 3

\* C8: a status-200 response whose body is anything but an array of
\* 6-element arrays ends the loop and leaves no record of its own in the
\* accumulation list.
C8_MalformedAddsNothing ==
    (/\ pc = "exit"
     /\ received # <<>>
     /\ LET r == received[Len(received)] IN
          r.sent /\ r.status = 200 /\ ~WellFormed(r))
        => candle_data = RecordsUpTo(Len(received) - 1)

\* C9: every window requested is 24 hours long and each window ends where
\* the one before it starts.
C9_Contiguous ==
    /\ \A i \in 1..Len(requests) : requests[i].end - requests[i].start = 24 * 3600
    /\ \A i \in 1..(Len(requests) - 1) :
         /\ requests[i + 1].end = requests[i].start
         /\ requests[i + 1].end < requests[i].end

C9_Witness ==
    /\ Len(requests) = 3
    /\ pc = "exit"

\* the whole days between the first window's end and the floor date
WholeDays == (requests[1].end - 1437350400) \div (24 * 3600)

C10_Bound ==
    /\ requests # <<>> => Len(requests) <= WholeDays + 1
    /\ (/\ pc = "exit"
        /\ ~int_at.happened
        /\ received # <<>>
        /\ \A i \in 1..Len(received) :
             WellFormed(received[i]) /\ received[i].body.items # <<>>)
         => /\ Len(requests) = WholeDays + 1
            /\ requests[Len(requests)].end = 1437350400

\* C10: every run ends; it issues at most D+1 requests, D the whole days
\* from the floor date to the first window's end, and exactly D+1, the last
\* for the window ending at the floor date, when every response is a
\* non-empty status-200 candle array.
C10_Terminates == [](C10_Bound /\ (pc # "exit" => ENABLED Next)) /\ <>(pc = "exit")

C10_Witness ==
    /\ pc = "exit"
    /\ ~int_at.happened
    /\ Len(requests) = 3
    /\ \A i \in 1..3 : WellFormed(received[i]) /\ received[i].body.items # <<>>

====
